---------------------------- MODULE Spec2Model ----------------------------
(***************************************************************************)
(* Biometric template subsystem of the Secure DevSecOps Console backend:   *)
(* the enroll / verify / toggle handlers of backend/main.py over the       *)
(* biometric_data table, the three modality services and the template      *)
(* cipher of backend/services.                                             *)
(***************************************************************************)
EXTENDS Integers, Sequences, FiniteSets, TLC

(***************************************************************************)
(* Bounds of the model.                                                    *)
(***************************************************************************)
\* number of successful enroll and toggle calls explored in one run
MaxWrites == 3
\* size of the byte alphabet of the cipher model (stands for 0..255)
ByteMod == 32
\* block size of the cipher model (stands for AES.block_size)
BlockLen == 2
\* fixed-point scale of the similarity arithmetic (1000 stands for 1.0)
Scale == 1000

(***************************************************************************)
(* Values.  A Python string-or-None is one of: None, a one-line text, or   *)
(* a two-line text "l1\nl2".                                               *)
(***************************************************************************)
None == [kind |-> "None"]
Text(s) == [kind |-> "text", v |-> s]
Lines(a, b) == [kind |-> "lines", v |-> <<a, b>>]
Err(why) == [ok |-> FALSE, err |-> why]
Ok(val) == [ok |-> TRUE, val |-> val]

Modalities == {"face", "fingerprint", "voice"}

\* rows of the users table: admin is seeded by init_db, the others are
\* accounts present in the database
Users == [admin |-> [role |-> "admin", is_active |-> TRUE],
          alice |-> [role |-> "user", is_active |-> TRUE]]
UserNames == DOMAIN Users

(***************************************************************************)
(* Captures.  What the media libraries return for each request payload:    *)
(* whether it is base64 of a readable image / WAV file, how many faces the *)
(* cascade detects, the clip duration (tenths of a second), the pixel      *)
(* count, and the descriptor the feature code computes from it.            *)
(***************************************************************************)
Captures ==
  [garbage |-> [decodes |-> FALSE, faces |-> 0, duration |-> 0, pixels |-> 0,
                feat |-> <<>>],
   blank   |-> [decodes |-> TRUE, faces |-> 0, duration |-> 1, pixels |-> 100,
                feat |-> <<1, 1, 1>>],
   crowd   |-> [decodes |-> TRUE, faces |-> 2, duration |-> 700, pixels |-> 65536,
                feat |-> <<2, 2, 1>>],
   s1      |-> [decodes |-> TRUE, faces |-> 1, duration |-> 300, pixels |-> 65536,
                feat |-> <<3, 1, 2>>],
   s2      |-> [decodes |-> TRUE, faces |-> 1, duration |-> 300, pixels |-> 65536,
                feat |-> <<0, 3, 1>>]]
Payloads == {None} \cup {Text(c) : c \in DOMAIN Captures}

\* Python truthiness of an Optional[str]
Falsy(p) == p = None \/ p = Text("")


(***************************************************************************)
(* Codec: json.dumps / json.loads of a list of numbers, at token level.    *)
(* A JSON text is a sequence of characters of Alphabet; a feature value is *)
(* a digit 0..9.                                                           *)
(***************************************************************************)
Alphabet == <<"0", "1", "2", "3", "4", "5", "6", "7", "8", "9", "[", "]", ",">>
DigitChar(n) == Alphabet[n + 1]
IsDigitChar(c) == \E n \in 0..9 : Alphabet[n + 1] = c
DigitVal(c) == CHOOSE n \in 0..9 : Alphabet[n + 1] = c

RECURSIVE JoinDigits(_)
JoinDigits(v) ==
  IF Len(v) = 0 THEN <<>>
  ELSE IF Len(v) = 1 THEN <<DigitChar(v[1])>>
  ELSE <<DigitChar(v[1]), ",">> \o JoinDigits(Tail(v))

dumps(v) == <<"[">> \o JoinDigits(v) \o <<"]">>

RECURSIVE ParseItems(_)
\* the items between the brackets: digit (, digit)*
ParseItems(cs) ==
  IF Len(cs) = 0 THEN Err("json")
  ELSE IF ~IsDigitChar(cs[1]) THEN Err("json")
  ELSE IF Len(cs) = 1 THEN Ok(<<DigitVal(cs[1])>>)
  ELSE IF cs[2] # "," THEN Err("json")
  ELSE LET rest == ParseItems(SubSeq(cs, 3, Len(cs)))
       IN  IF rest.ok THEN Ok(<<DigitVal(cs[1])>> \o rest.val) ELSE rest

loads(cs) ==
  IF Len(cs) < 2 \/ cs[1] # "[" \/ cs[Len(cs)] # "]" THEN Err("json")
  ELSE IF Len(cs) = 2 THEN Ok(<<>>)
  ELSE ParseItems(SubSeq(cs, 2, Len(cs) - 1))

(***************************************************************************)
(* Template cipher (EncryptionService): CBC over a block cipher with PKCS7 *)
(* padding, the IV carried beside the ciphertext, both base64-encoded and  *)
(* joined by a newline.  Bytes are 0..ByteMod-1, xor is addition modulo    *)
(* ByteMod, the keyed block permutation is a bytewise shift by the key.    *)
(***************************************************************************)
BIOMETRIC_ENCRYPTION_KEY == 7
BIOMETRIC_ENCRYPTION_SALT == 11

\* hashlib.sha256(x).digest(): a fixed mixing function of its input
SHA256(x) == (x * 5 + 3) % ByteMod

\* str.encode('utf-8') / bytes.decode('utf-8') on the characters of Alphabet
CharCode(c) == CHOOSE i \in 1..Len(Alphabet) : Alphabet[i] = c
Utf8Encode(cs) == [i \in 1..Len(cs) |-> CharCode(cs[i])]
Utf8Decode(bs) ==
  IF \A i \in 1..Len(bs) : bs[i] \in 1..Len(Alphabet)
  THEN Ok([i \in 1..Len(bs) |-> Alphabet[bs[i]]])
  ELSE Err("utf-8")

\* base64.b64encode(...).decode() gives one line of text, here two symbols of
\* radix 8 per byte; b64decode reads it back, or fails on a malformed line
RECURSIVE B64Chars(_)
B64Chars(bs) ==
  IF Len(bs) = 0 THEN <<>>
  ELSE <<bs[1] \div 8, bs[1] % 8>> \o B64Chars(Tail(bs))
RECURSIVE B64Bytes(_)
B64Bytes(cs) ==
  IF Len(cs) = 0 THEN <<>>
  ELSE <<cs[1] * 8 + cs[2]>> \o B64Bytes(SubSeq(cs, 3, Len(cs)))
B64Encode(bs) == [b64 |-> TRUE, chars |-> B64Chars(bs)]
B64Decode(line) ==
  IF ~line.b64 \/ Len(line.chars) % 2 # 0 THEN Err("base64")
  ELSE Ok(B64Bytes(line.chars))

\* Crypto.Util.Padding.pad / unpad (pkcs7)
Pad(bs) ==
  LET n == BlockLen - (Len(bs) % BlockLen)
  IN  bs \o [i \in 1..n |-> n]
\* variant: strips one byte whatever the padding length is
UnpadOne(bs) ==
  IF Len(bs) = 0 \/ Len(bs) % BlockLen # 0 THEN Err("padding")
  ELSE Ok(SubSeq(bs, 1, Len(bs) - 1))
Unpad(bs) ==
  IF Len(bs) = 0 \/ Len(bs) % BlockLen # 0 THEN Err("padding")
  ELSE LET n == bs[Len(bs)]
       IN  IF n < 1 \/ n > BlockLen THEN Err("padding")
           ELSE IF \E i \in (Len(bs) - n + 1)..Len(bs) : bs[i] # n THEN Err("padding")
           ELSE Ok(SubSeq(bs, 1, Len(bs) - n))

RECURSIVE CbcEncrypt(_, _, _)
CbcEncrypt(key, prev, pt) ==
  IF Len(pt) = 0 THEN <<>>
  ELSE LET c == [j \in 1..BlockLen |-> (pt[j] + prev[j] + key) % ByteMod]
       IN  c \o CbcEncrypt(key, c, SubSeq(pt, BlockLen + 1, Len(pt)))

RECURSIVE CbcDecrypt(_, _, _)
CbcDecrypt(key, prev, ct) ==
  IF Len(ct) = 0 THEN <<>>
  ELSE LET c == SubSeq(ct, 1, BlockLen)
           p == [j \in 1..BlockLen |-> (c[j] + 2 * ByteMod - key - prev[j]) % ByteMod]
       IN  p \o CbcDecrypt(key, c, SubSeq(ct, BlockLen + 1, Len(ct)))

\* EncryptionService.__init__ and _generate_encryption_key
EncryptionService(password, salt) ==
  [password |-> password, salt |-> salt, encryption_key |-> SHA256(password)]

\* the i-th IV of the random source; RngFail stands for a failure inside AES.new
IV(i) == [j \in 1..BlockLen |-> (3 * i + j) % ByteMod]
RngFail == <<>>
\* the IVs drawn in the runs of the API (one value keeps the runs small)
IVs == {IV(1)}

\* EncryptionService.encrypt, with the IV drawn for this call
encrypt(svc, iv, data) ==
  IF iv = RngFail THEN Err("Failed to encrypt data")
  ELSE Ok(Lines(B64Encode(iv),
                B64Encode(CbcEncrypt(svc.encryption_key, iv, Pad(Utf8Encode(data))))))

\* EncryptionService.decrypt
decrypt(svc, encrypted_data) ==
  IF encrypted_data.kind # "lines" THEN Err("Failed to decrypt data")
  ELSE LET iv == B64Decode(encrypted_data.v[1])
           ct == B64Decode(encrypted_data.v[2])
       IN  IF ~iv.ok \/ ~ct.ok THEN Err("Failed to decrypt data")
           ELSE IF Len(iv.val) # BlockLen \/ Len(ct.val) % BlockLen # 0
                THEN Err("Failed to decrypt data")
           ELSE LET plain == Unpad(CbcDecrypt(svc.encryption_key, iv.val, ct.val))
                IN  IF ~plain.ok THEN Err("Failed to decrypt data")
                    ELSE LET txt == Utf8Decode(plain.val)
                         IN  IF txt.ok THEN txt ELSE Err("Failed to decrypt data")

\* EncryptionService.encrypt_bytes: the IV followed by the ciphertext
encrypt_bytes(svc, iv, data) ==
  IF iv = RngFail THEN Err("Failed to encrypt bytes")
  ELSE Ok(iv \o CbcEncrypt(svc.encryption_key, iv, Pad(data)))

\* EncryptionService.decrypt_bytes: the first block is the IV, the rest the
\* ciphertext
decrypt_bytes(svc, encrypted_data) ==
  IF Len(encrypted_data) < BlockLen THEN Err("Failed to decrypt bytes")
  ELSE LET iv == SubSeq(encrypted_data, 1, BlockLen)
           ciphertext == SubSeq(encrypted_data, BlockLen + 1, Len(encrypted_data))
       IN  IF Len(ciphertext) % BlockLen # 0 THEN Err("Failed to decrypt bytes")
           ELSE LET plain == Unpad(CbcDecrypt(svc.encryption_key, iv, ciphertext))
                IN  IF plain.ok THEN plain ELSE Err("Failed to decrypt bytes")

(***************************************************************************)
(* Vector arithmetic of the similarity scorers.  A real number is an       *)
(* integer count of 1/Scale units; NaN is the value numpy yields for 0/0.  *)
(* Feature values are small naturals (at most 4 elements of 0..4), which   *)
(* keeps every intermediate product inside 32 bits.                        *)
(***************************************************************************)
NaN == 0 - 1000000000
IsNaN(x) == x = NaN

RECURSIVE SqrtSearch(_, _, _)
\* the largest r in lo..hi with r*r <= n
SqrtSearch(n, lo, hi) ==
  IF lo >= hi THEN lo
  ELSE LET mid == (lo + hi + 1) \div 2
       IN  IF mid * mid <= n THEN SqrtSearch(n, mid, hi) ELSE SqrtSearch(n, lo, mid - 1)
ISqrt(n) == SqrtSearch(n, 0, IF n < 46340 THEN n ELSE 46340)

RECURSIVE Dot(_, _)
Dot(a, b) == IF Len(a) = 0 \/ Len(b) = 0 THEN 0 ELSE a[1] * b[1] + Dot(Tail(a), Tail(b))
RECURSIVE Sum(_)
Sum(a) == IF Len(a) = 0 THEN 0 ELSE a[1] + Sum(Tail(a))
\* variant: the elementwise sum in place of the difference
DiffSum(a, b) == [i \in 1..Len(a) |-> a[i] + b[i]]
Diff(a, b) == [i \in 1..Len(a) |-> a[i] - b[i]]
Min(x, y) == IF x <= y THEN x ELSE y
Truncate(a, n) == SubSeq(a, 1, n)

\* x / y for a quotient of magnitude q, with the sign of num
Signed(num, q) == IF num >= 0 THEN q ELSE 0 - q
Abs(x) == IF x >= 0 THEN x ELSE 0 - x

\* np.dot(a, b) / (np.linalg.norm(a) * np.linalg.norm(b)), norms nonzero
CosineRatio(a, b) ==
  Signed(Dot(a, b), (Abs(Dot(a, b)) * Scale * 100) \div ISqrt(Dot(a, a) * Dot(b, b) * 10000))

\* np.linalg.norm(a - b) / np.sqrt(len(a) * 2)
NormalizedDistance(a, b) ==
  IF Len(a) = 0 THEN NaN
  ELSE ISqrt((Dot(Diff(a, b), Diff(a, b)) * Scale * Scale) \div (2 * Len(a)))

\* n * variance of a; zero exactly when np.std(a) is zero
Spread(a) == Len(a) * Dot(a, a) - Sum(a) * Sum(a)

\* np.corrcoef(a, b)[0, 1]: NaN when a vector is empty or has no variance
Corrcoef(a, b) ==
  IF Len(a) = 0 \/ Spread(a) = 0 \/ Spread(b) = 0 THEN NaN
  ELSE LET num == Len(a) * Dot(a, b) - Sum(a) * Sum(b)
       IN  Signed(num, (Abs(num) * Scale * 100) \div ISqrt(Spread(a) * Spread(b) * 10000))

\* Python's max(lo, min(hi, x)): a NaN x leaves min at hi
Clamp(lo, hi, x) ==
  LET m == IF IsNaN(x) THEN hi ELSE IF x < hi THEN x ELSE hi
  IN  IF m > lo THEN m ELSE lo

\* w1*x1 + w2*x2 + w3*x3 with weights in percent; NaN if a term is NaN
Weighted(w1, x1, w2, x2, w3, x3) ==
  IF IsNaN(x1) \/ IsNaN(x2) \/ IsNaN(x3) THEN NaN
  ELSE (w1 * x1 + w2 * x2 + w3 * x3) \div 100

\* a tolerance given in percent, in 1/Scale units
Tolerance(pct) == (Scale * pct) \div 100
\* variant: the strict comparison
StrictlyGreater(x, y) == ~IsNaN(x) /\ x > y
\* x >= y on floats: false when x is NaN
GreaterEq(x, y) == ~IsNaN(x) /\ x >= y

(***************************************************************************)
(* Face service.                                                           *)
(***************************************************************************)
\* default tolerance of verify_face, in percent
FaceTolerance == 10

\* base64_to_image: the decoded image, or ValueError
face_base64_to_image(p) ==
  IF Falsy(p) THEN Err("Image data is empty or invalid")
  ELSE IF ~Captures[p.v].decodes THEN Err("Failed to decode base64 data")
  ELSE Ok(Captures[p.v])

\* variant: takes the first detected face when there are several
ExtractFirstFace(image) ==
  IF image.faces = 0 THEN Err("Face encoding failed: No face detected in the image")
  ELSE Ok(image.feat)
\* extract_face_encoding: exactly one detected face, then the descriptor
extract_face_encoding(image) ==
  IF image.faces = 0 THEN Err("Face encoding failed: No face detected in the image")
  ELSE IF image.faces > 1 THEN Err("Face encoding failed: Multiple faces detected")
  ELSE Ok(image.feat)

\* lines 276-279: the correlation term of the face scorer
FaceCorrelation(a, b) ==
  LET corr == Corrcoef(a, b)
      correlation == IF IsNaN(corr) THEN 0 ELSE corr
  IN  (correlation + Scale) \div 2

\* the scoring part of verify_face (after both encodings are at hand)
FaceScore(new_encoding, stored_encoding, tolerance) ==
  LET n == Min(Len(new_encoding), Len(stored_encoding))
      a == Truncate(new_encoding, n)
      b == Truncate(stored_encoding, n)
      cosine_similarity == IF Dot(a, a) = 0 \/ Dot(b, b) = 0 THEN 0 ELSE CosineRatio(a, b)
      nd == NormalizedDistance(a, b)
      distance_similarity == IF IsNaN(nd) THEN NaN ELSE Scale - nd
      correlation_similarity == FaceCorrelation(a, b)
      combined_similarity == Weighted(50, cosine_similarity, 30, distance_similarity,
                                      20, correlation_similarity)
  IN  [success |-> GreaterEq(combined_similarity, Scale - tolerance),
       confidence |-> Clamp(0, 100 * Scale,
                            IF IsNaN(combined_similarity) THEN NaN
                            ELSE 100 * combined_similarity),
       similarity |-> combined_similarity,
       threshold |-> Scale - tolerance,
       metrics |-> [cosine |-> cosine_similarity, distance |-> distance_similarity,
                    correlation |-> correlation_similarity]]

\* outcome of a service call: ok, the value or the error, and which steps ran
Failed(why, extractor, decryptor) ==
  [ok |-> FALSE, err |-> why, extractor |-> extractor, decrypt |-> decryptor,
   compared |-> FALSE]
Done(val, extractor, decryptor, compared) ==
  [ok |-> TRUE, val |-> val, extractor |-> extractor, decrypt |-> decryptor,
   compared |-> compared]

\* enroll_face: decode, extract, serialize, encrypt
enroll_face(svc, base64_image, iv) ==
  LET image == face_base64_to_image(base64_image)
  IN  IF ~image.ok THEN Failed("Face enrollment failed: decode", FALSE, FALSE)
      ELSE LET face_encoding == extract_face_encoding(image.val)
           IN  IF ~face_encoding.ok
               THEN Failed("Face enrollment failed: extract", TRUE, FALSE)
               ELSE LET enc == encrypt(svc, iv, dumps(face_encoding.val))
                    IN  IF enc.ok THEN Done(enc.val, TRUE, FALSE, FALSE)
                        ELSE Failed("Face enrollment failed: encrypt", TRUE, FALSE)

\* verify_face: decode, extract, decrypt, deserialize, score
verify_face(svc, base64_image, stored_encrypted_encoding, tolerance) ==
  LET image == face_base64_to_image(base64_image)
  IN  IF ~image.ok THEN Failed("Face verification failed: decode", FALSE, FALSE)
      ELSE LET new_encoding == extract_face_encoding(image.val)
           IN  IF ~new_encoding.ok
               THEN Failed("Face verification failed: extract", TRUE, FALSE)
               ELSE LET decrypted_json == decrypt(svc, stored_encrypted_encoding)
                    IN  IF ~decrypted_json.ok
                        THEN Failed("Face verification failed: decrypt", TRUE, TRUE)
                        ELSE LET stored_encoding == loads(decrypted_json.val)
                             IN  IF ~stored_encoding.ok
                                 THEN Failed("Face verification failed: deserialize",
                                             TRUE, TRUE)
                                 ELSE Done(FaceScore(new_encoding.val, stored_encoding.val,
                                                     tolerance), TRUE, TRUE, TRUE)

(***************************************************************************)
(* Voice service.                                                          *)
(***************************************************************************)
\* default tolerance of verify_voice, in percent
VoiceTolerance == 10
\* accepted clip duration, in tenths of a second
MinDuration == 250
MaxDuration == 600

\* extract_voice_features: decode, check the duration window, then the features
\* variant: no test of the clip's duration
ExtractVoiceAnyDuration(base64_audio) ==
  IF base64_audio = None \/ base64_audio = Text("") THEN Err("Invalid audio data")
  ELSE IF ~Captures[base64_audio.v].decodes THEN Err("Invalid audio data")
  ELSE Ok(Captures[base64_audio.v].feat)
extract_voice_features(base64_audio) ==
  IF base64_audio = None \/ base64_audio = Text("") THEN Err("Invalid audio data")
  ELSE IF ~Captures[base64_audio.v].decodes THEN Err("Invalid audio data")
  ELSE IF Captures[base64_audio.v].duration < MinDuration THEN Err("Audio too short")
  ELSE IF Captures[base64_audio.v].duration > MaxDuration THEN Err("Audio too long")
  ELSE Ok(Captures[base64_audio.v].feat)

\* enroll_voice
enroll_voice(svc, base64_audio, iv) ==
  LET features == extract_voice_features(base64_audio)
  IN  IF ~features.ok THEN Failed("Voice feature extraction failed", TRUE, FALSE)
      ELSE LET enc == encrypt(svc, iv, dumps(features.val))
           IN  IF enc.ok THEN Done(enc.val, TRUE, FALSE, FALSE)
               ELSE Failed("Failed to encrypt data", TRUE, FALSE)

\* the scoring part of verify_voice
\* lines 212-218: the correlation term of the voice scorer
VoiceCorrelation(a, b) ==
  LET corr == Corrcoef(a, b)
  IN  IF Len(a) > 0 /\ Spread(a) > 0 /\ Spread(b) > 0
      THEN LET c == IF IsNaN(corr) THEN 0 ELSE corr
           IN  IF (c + Scale) \div 2 > 0 THEN (c + Scale) \div 2 ELSE 0
      ELSE 0

VoiceScore(new_features, stored_features, tolerance) ==
  LET n == Min(Len(new_features), Len(stored_features))
      a == Truncate(new_features, n)
      b == Truncate(stored_features, n)
      cosine_similarity ==
        Clamp(0, Scale, IF Dot(a, a) = 0 \/ Dot(b, b) = 0 THEN 0 ELSE CosineRatio(a, b))
      nd == NormalizedDistance(a, b)
      distance_similarity == Clamp(0, Scale, IF IsNaN(nd) THEN NaN ELSE Scale - nd)
      correlation_similarity == VoiceCorrelation(a, b)
      combined_similarity == Weighted(60, cosine_similarity, 25, distance_similarity,
                                      15, correlation_similarity)
  IN  [success |-> GreaterEq(combined_similarity, Scale - tolerance),
       confidence |-> Clamp(0, 100 * Scale, 100 * combined_similarity),
       similarity |-> combined_similarity,
       threshold |-> Scale - tolerance,
       metrics |-> [cosine |-> cosine_similarity, distance |-> distance_similarity,
                    correlation |-> correlation_similarity]]

\* verify_voice: extract, decrypt, deserialize, score
verify_voice(svc, base64_audio, stored_encrypted_features, tolerance) ==
  LET new_features == extract_voice_features(base64_audio)
  IN  IF ~new_features.ok THEN Failed("Voice verification failed: extract", TRUE, FALSE)
      ELSE LET decrypted_json == decrypt(svc, stored_encrypted_features)
           IN  IF ~decrypted_json.ok
               THEN Failed("Voice verification failed: decrypt", TRUE, TRUE)
               ELSE LET stored_features == loads(decrypted_json.val)
                    IN  IF ~stored_features.ok
                        THEN Failed("Voice verification failed: deserialize", TRUE, TRUE)
                        ELSE Done(VoiceScore(new_features.val, stored_features.val,
                                             tolerance), TRUE, TRUE, TRUE)

(***************************************************************************)
(* Fingerprint service (main.py does not import it).                       *)
(***************************************************************************)
\* minimum image.size accepted by enroll_fingerprint
MinPixels == 10000

\* base64_to_image of the fingerprint service
fingerprint_base64_to_image(p) ==
  IF p = None \/ p = Text("") THEN Err("Invalid image format")
  ELSE IF ~Captures[p.v].decodes THEN Err("Invalid image format")
  ELSE Ok(Captures[p.v])

\* extract_fingerprint_encoding: the descriptor of the resized image
extract_fingerprint_encoding(image) == Ok(image.feat)

\* enroll_fingerprint: decode, size check, extract, serialize, encrypt
enroll_fingerprint(svc, base64_image, iv) ==
  LET image == fingerprint_base64_to_image(base64_image)
  IN  IF ~image.ok THEN Failed("Fingerprint enrollment failed: decode", FALSE, FALSE)
      ELSE IF image.val.pixels < MinPixels
      THEN Failed("Fingerprint enrollment failed: too small", FALSE, FALSE)
      ELSE LET enc == encrypt(svc, iv, dumps(extract_fingerprint_encoding(image.val).val))
           IN  IF enc.ok THEN Done(enc.val, TRUE, FALSE, FALSE)
               ELSE Failed("Fingerprint enrollment failed: encrypt", TRUE, FALSE)

\* default tolerance of verify_fingerprint, in percent
FingerprintTolerance == 5

\* the scoring part of verify_fingerprint, on arrays of equal length (np.dot
\* rejects any other pair)
\* lines 218-221: the correlation term of the fingerprint scorer
FingerprintCorrelation(a, b) ==
  IF Len(a) > 0 /\ Spread(a) > 0 /\ Spread(b) > 0 THEN Corrcoef(a, b) ELSE 0

\* line 224: the weighted sum of the three metrics
FingerprintWeighted(a, b) ==
  LET cosine_similarity == IF Dot(a, a) = 0 \/ Dot(b, b) = 0 THEN 0 ELSE CosineRatio(a, b)
      nd == NormalizedDistance(a, b)
      euclidean_similarity == IF IsNaN(nd) THEN NaN ELSE Scale - nd
      correlation == FingerprintCorrelation(a, b)
  IN  Weighted(50, cosine_similarity, 30, euclidean_similarity, 20, correlation)

FingerprintScore(new_encoding, stored_encoding, tolerance) ==
  LET similarity == Clamp(0, Scale, FingerprintWeighted(new_encoding, stored_encoding))
  IN  [success |-> GreaterEq(similarity, Scale - tolerance),
       confidence |-> 100 * similarity,
       similarity |-> similarity,
       threshold |-> Scale - tolerance]

\* verify_fingerprint: decode, extract, decrypt, deserialize, score
verify_fingerprint(svc, base64_image, stored_encrypted_encoding, tolerance) ==
  LET image == fingerprint_base64_to_image(base64_image)
  IN  IF ~image.ok THEN Failed("Fingerprint verification failed: decode", FALSE, FALSE)
      ELSE LET new_encoding == extract_fingerprint_encoding(image.val)
           IN  IF ~new_encoding.ok
               THEN Failed("Fingerprint verification failed: extract", TRUE, FALSE)
               ELSE LET decrypted_json == decrypt(svc, stored_encrypted_encoding)
                    IN  IF ~decrypted_json.ok
                        THEN Failed("Fingerprint verification failed: decrypt", TRUE, TRUE)
                        ELSE LET stored_encoding == loads(decrypted_json.val)
                             IN  IF ~stored_encoding.ok
                                 THEN Failed("Fingerprint verification failed: deserialize",
                                             TRUE, TRUE)
                                 ELSE IF Len(new_encoding.val) # Len(stored_encoding.val)
                                 THEN Failed("Fingerprint verification failed: shapes",
                                             TRUE, TRUE)
                                 ELSE Done(FingerprintScore(new_encoding.val,
                                                            stored_encoding.val, tolerance),
                                           TRUE, TRUE, TRUE)

(***************************************************************************)
(* State.                                                                  *)
(***************************************************************************)
VARIABLES
  store,        \* rows of biometric_data, in insertion order (the index is the id)
  instance,     \* _encryption_service_instance of encryption_service.py
  last,         \* the response of the last API call, with what the call ran
  writes,       \* number of successful enroll and toggle calls so far
  enrolledPairs,\* history: the (user, modality) pairs an enroll call completed for
  reenable,     \* history: per pair, the template found by the last disable
  enrollTask,   \* an enroll call in progress: its position and its locals
  verifyTask,   \* a verify call in progress: its position and its locals
  produced,     \* history: the templates written by completed enroll calls
  call          \* a direct call of a service function: its arguments and result

vars == <<store, instance, last, writes, enrolledPairs, reenable,
          enrollTask, verifyTask, produced, call>>
\* the part of the state used by calls made one at a time, and by overlapping calls
seq == <<last, writes, enrolledPairs, reenable>>
conc == <<enrollTask, verifyTask, produced>>
\* the state of the API, untouched by direct calls of the services
api == <<store, instance, last, writes, enrolledPairs, reenable,
         enrollTask, verifyTask, produced>>

Pairs == UserNames \X Modalities

\* a row of biometric_data
BiometricData(user_id, biometric_type, is_enrolled, enrollment_data) ==
  [user_id |-> user_id, biometric_type |-> biometric_type,
   is_enrolled |-> is_enrolled, enrollment_data |-> enrollment_data]

NoRecord == [kind |-> "NoRecord"]

\* db.query(BiometricData).filter(user_id == u, biometric_type == m).first()
Matching(st, u, m) ==
  {i \in 1..Len(st) : st[i].user_id = u /\ st[i].biometric_type = m}
FirstIndex(st, u, m) ==
  CHOOSE i \in Matching(st, u, m) : \A j \in Matching(st, u, m) : i <= j
QueryFirst(st, u, m) ==
  IF Matching(st, u, m) = {} THEN NoRecord ELSE st[FirstIndex(st, u, m)]

\* create_access_token: the claims of the encoded token
create_access_token(sub, biometric_verified) ==
  [sub |-> sub, biometric_verified |-> biometric_verified]

\* EncryptionService(): an object constructed with the configured values; ident
\* tells one constructed object from another (Python's id())
NewEncryptionService(ident) ==
  [ident |-> ident]
    @@ EncryptionService(BIOMETRIC_ENCRYPTION_KEY, BIOMETRIC_ENCRYPTION_SALT)

\* variant: constructs an object on every call
GetServiceAlwaysNew(inst) ==
  IF inst = None THEN NewEncryptionService(1)
  ELSE NewEncryptionService(1 + (inst.ident % 2))
\* get_encryption_service: the singleton, constructed on first use
get_encryption_service(inst) ==
  IF inst = None THEN NewEncryptionService(1) ELSE inst

\* the service the handlers use once constructed
Service == EncryptionService(BIOMETRIC_ENCRYPTION_KEY, BIOMETRIC_ENCRYPTION_SALT)

\* what a call ran: the extractor, the decryption, the comparison and its verdict,
\* the stored template handed to the matcher, the template written to the store,
\* whether the write updated an existing row, the confidence put in the message
\* (a sequence: empty when the message carries none)
NoCall ==
  [extractor |-> FALSE, decrypt |-> FALSE, compared |-> FALSE, matched |-> FALSE,
   template |-> None, written |-> None, replaced |-> FALSE, confidence |-> <<>>]
VerifyTrace(r, template) ==
  [extractor |-> r.extractor, decrypt |-> r.decrypt, compared |-> r.compared,
   matched |-> r.ok /\ r.val.success,
   template |-> IF r.decrypt THEN template ELSE None, written |-> None,
   replaced |-> FALSE, confidence |-> IF r.ok THEN <<r.val.confidence>> ELSE <<>>]
\* existing: whether the handler found a row to update (line 200)
EnrollTrace(r, existing) ==
  [extractor |-> r.extractor, decrypt |-> FALSE, compared |-> FALSE, matched |-> FALSE,
   template |-> None, written |-> IF r.ok THEN r.val ELSE None,
   replaced |-> r.ok /\ existing, confidence |-> <<>>]

\* a response of the API (an HTTPException has success FALSE) with the call's trace
Response(op, u, m, sample, status, success, message, token, trace) ==
  [op |-> op, user |-> u, biometric_type |-> m, sample |-> sample, status |-> status,
   success |-> success, message |-> message, token |-> token] @@ trace

Outcome(st, inst, resp) == [store |-> st, instance |-> inst, resp |-> resp]

(***************************************************************************)
(* POST /biometric/enroll                                                  *)
(***************************************************************************)
\* lines 194-212: update the existing row, or add a new one, and commit
\* variant: every enrollment inserts a new row
StoreEnrollmentInsertOnly(st, u, m, enrollment_data) ==
  Append(st, BiometricData(u, m, TRUE, enrollment_data))

\* lines 200-212: the row found by the query (0 for none) is updated, or a row is
\* added; the commit makes flag and template visible together
\* variant: the update goes to every row of the user
WriteRowAllModalities(st, existing, u, m, enrollment_data) ==
  IF existing # 0
  THEN [i \in 1..Len(st) |->
          IF st[i].user_id = u
          THEN [st[i] EXCEPT !.is_enrolled = TRUE, !.enrollment_data = enrollment_data]
          ELSE st[i]]
  ELSE Append(st, BiometricData(u, m, TRUE, enrollment_data))
WriteRow(st, existing, u, m, enrollment_data) ==
  IF existing # 0
  THEN [st EXCEPT ![existing] =
          [@ EXCEPT !.is_enrolled = TRUE, !.enrollment_data = enrollment_data]]
  ELSE Append(st, BiometricData(u, m, TRUE, enrollment_data))

\* lines 195-198: the id of the existing row, 0 for none
Existing(st, u, m) == IF Matching(st, u, m) # {} THEN FirstIndex(st, u, m) ELSE 0

StoreEnrollment(st, u, m, enrollment_data) ==
  WriteRow(st, Existing(st, u, m), u, m, enrollment_data)

\* variant: the row is marked enrolled before the service call returns
EnrollOutcomeEager(st, u, m, r) ==
  IF r.ok THEN StoreEnrollment(st, u, m, r.val)
  ELSE IF Matching(st, u, m) # {}
  THEN [st EXCEPT ![FirstIndex(st, u, m)] = [@ EXCEPT !.is_enrolled = TRUE]]
  ELSE Append(st, BiometricData(u, m, TRUE, None))

\* the store after the service call returned r: a ValueError leaves the handler
\* through HTTPException before the table is touched
EnrollOutcome(st, u, m, r) ==
  IF r.ok THEN StoreEnrollment(st, u, m, r.val) ELSE st

\* the mock branch: the submitted payload, or a placeholder, becomes the template
MockEnrollmentData(m, p) ==
  IF Falsy(p) THEN Text("mock_" \o m \o "_data") ELSE p

\* lines 163-192: the template to store, or the error that ends the call
EnrollmentData(inst, m, p, iv) ==
  IF m \in {"face", "voice"}
  THEN IF Falsy(p)
       THEN [r |-> Failed("data is required", FALSE, FALSE), instance |-> inst]
       ELSE LET svc == get_encryption_service(inst)
            IN  [r |-> IF m = "face" THEN enroll_face(svc, p, iv)
                       ELSE enroll_voice(svc, p, iv),
                 instance |-> svc]
  ELSE [r |-> Done(MockEnrollmentData(m, p), FALSE, FALSE, FALSE), instance |-> inst]

\* the response of the call, given the outcome r of lines 163-192
EnrollResponse(u, m, p, r, existing) ==
  IF r.ok
  THEN Response("enroll", u, m, p, 200, TRUE, "enrolled successfully", None,
                EnrollTrace(r, existing))
  ELSE Response("enroll", u, m, p, 400, FALSE, r.err, None, EnrollTrace(r, FALSE))

enroll_biometric(st, inst, u, m, p, iv) ==
  IF ~Users[u].is_active
  THEN Outcome(st, inst, Response("enroll", u, m, p, 400, FALSE, "Inactive user", None, NoCall))
  ELSE LET e == EnrollmentData(inst, m, p, iv)
       IN  Outcome(EnrollOutcome(st, u, m, e.r), e.instance,
                   EnrollResponse(u, m, p, e.r, Matching(st, u, m) # {}))

(***************************************************************************)
(* POST /biometric/verify                                                  *)
(***************************************************************************)
\* variant: only the missing row counts as not enrolled
NotEnrolledMissingOnly(biometric) == biometric = NoRecord

\* line 231: if not biometric or not biometric.is_enrolled
NotEnrolled(biometric) == biometric = NoRecord \/ ~biometric.is_enrolled

\* lines 248-268 and 280-300: the response built from the service's result
VerifyResponse(u, m, p, r, template) ==
  IF ~r.ok
  THEN Response("verify", u, m, p, 400, FALSE, r.err, None, VerifyTrace(r, template))
  ELSE IF r.val.success
  THEN Response("verify", u, m, p, 200, TRUE, "verification successful",
                create_access_token(u, TRUE), VerifyTrace(r, template))
  ELSE Response("verify", u, m, p, 200, FALSE, "verification failed", None,
                VerifyTrace(r, template))

\* lines 231-313: the call after its query returned the row biometric
VerifyRow(inst, u, m, p, biometric) ==
  IF NotEnrolled(biometric)
  THEN [instance |-> inst,
        resp |-> Response("verify", u, m, p, 200, FALSE, "not enrolled", None, NoCall)]
  ELSE IF m \in {"face", "voice"}
  THEN IF Falsy(p)
       THEN [instance |-> inst,
             resp |-> Response("verify", u, m, p, 400, FALSE, "data is required", None,
                               NoCall)]
       ELSE LET svc == get_encryption_service(inst)
                r == IF m = "face"
                     THEN verify_face(svc, p, biometric.enrollment_data,
                                      Tolerance(FaceTolerance))
                     ELSE verify_voice(svc, p, biometric.enrollment_data,
                                       Tolerance(VoiceTolerance))
            IN  [instance |-> svc,
                 resp |-> VerifyResponse(u, m, p, r, biometric.enrollment_data)]
  ELSE [instance |-> inst,
        resp |-> Response("verify", u, m, p, 200, TRUE, "verification successful",
                          create_access_token(u, TRUE), NoCall)]

verify_biometric(st, inst, u, m, p) ==
  LET v == VerifyRow(inst, u, m, p, QueryFirst(st, u, m))
  IN  Outcome(st, v.instance, v.resp)

(***************************************************************************)
(* PUT /biometric/toggle                                                   *)
(***************************************************************************)
\* variant: disabling also drops the template
ToggleRecordWipe(biometric, enabled) ==
  [biometric EXCEPT !.is_enrolled = enabled,
                    !.enrollment_data = IF enabled THEN @ ELSE None]

\* line 333: biometric.is_enrolled = biometric_toggle.enabled
ToggleRecord(biometric, enabled) == [biometric EXCEPT !.is_enrolled = enabled]

toggle_biometric(st, inst, u, m, enabled) ==
  IF ~Users[u].is_active
  THEN Outcome(st, inst,
               Response("toggle", u, m, None, 400, FALSE, "Inactive user", None, NoCall))
  ELSE IF Users[u].role # "admin"
  THEN Outcome(st, inst,
               Response("toggle", u, m, None, 403, FALSE, "Not enough permissions", None,
                        NoCall))
  ELSE IF Matching(st, u, m) = {}
  THEN Outcome(st, inst,
               Response("toggle", u, m, None, 404, FALSE, "biometric not found", None, NoCall))
  ELSE Outcome([st EXCEPT ![FirstIndex(st, u, m)] = ToggleRecord(@, enabled)], inst,
               Response("toggle", u, m, None, 200, TRUE,
                        IF enabled THEN "enabled" ELSE "disabled", None, NoCall))

(***************************************************************************)
(* The state machine: one action per API call.                             *)
(***************************************************************************)
Idle == [phase |-> "idle", template |-> None]
\* no response in flight
NoResponse == Response("idle", "", "", None, 0, FALSE, "", None, NoCall)

\* no call in progress
NoTask == [pc |-> "none"]

\* init_db: the admin's three rows, not enrolled, without a template
SeededRows ==
  <<BiometricData("admin", "face", FALSE, None),
    BiometricData("admin", "fingerprint", FALSE, None),
    BiometricData("admin", "voice", FALSE, None)>>

Init ==
  /\ store = SeededRows
  /\ instance = None
  /\ enrollTask = NoTask
  /\ verifyTask = NoTask
  /\ produced = {}
  /\ call = NoTask
  /\ last = NoResponse
  /\ writes = 0
  /\ enrolledPairs = {}
  /\ reenable = [pr \in Pairs |-> Idle]

\* a client makes one call at a time: a call is taken when the previous response
\* has been returned
Enroll(u, m, p, iv) ==
  /\ last.op = "idle"
  /\ \E h \in {enroll_biometric(store, instance, u, m, p, iv)} :
         /\ h.resp.success => writes < MaxWrites
         /\ writes' = IF h.resp.success THEN writes + 1 ELSE writes
         /\ store' = h.store
         /\ instance' = h.instance
         /\ last' = h.resp
         /\ enrolledPairs' = IF h.resp.success THEN enrolledPairs \cup {<<u, m>>}
                             ELSE enrolledPairs
         /\ reenable' = IF h.resp.success THEN [reenable EXCEPT ![<<u, m>>] = Idle]
                        ELSE reenable
  /\ UNCHANGED <<conc, call>>

Verify(u, m, p) ==
  /\ last.op = "idle"
  /\ \E h \in {verify_biometric(store, instance, u, m, p)} :
         /\ store' = h.store
         /\ instance' = h.instance
         /\ last' = h.resp
  /\ UNCHANGED <<writes, enrolledPairs, reenable>>
  /\ UNCHANGED <<conc, call>>

Toggle(u, m, enabled) ==
  /\ last.op = "idle"
  /\ \E h \in {toggle_biometric(store, instance, u, m, enabled)},
        before \in {QueryFirst(store, u, m)} :
         /\ h.resp.success => writes < MaxWrites
         /\ writes' = IF h.resp.success THEN writes + 1 ELSE writes
         /\ store' = h.store
         /\ instance' = h.instance
         /\ last' = h.resp
         /\ reenable' =
              IF ~h.resp.success THEN reenable
              ELSE IF ~enabled /\ before.is_enrolled /\ <<u, m>> \in enrolledPairs
              THEN [reenable EXCEPT ![<<u, m>>] =
                      [phase |-> "off", template |-> before.enrollment_data]]
              ELSE IF enabled /\ reenable[<<u, m>>].phase = "off"
              THEN [reenable EXCEPT ![<<u, m>>].phase = "on"]
              ELSE reenable
  /\ UNCHANGED <<enrolledPairs, conc, call>>

\* the response is returned to the client
Return ==
  /\ last.op # "idle"
  /\ last' = NoResponse
  /\ UNCHANGED <<store, instance, writes, enrolledPairs, reenable, conc, call>>

\* the features the modality's extractor produces from a payload, or its error
FeaturesOf(m, p) ==
  IF m = "face"
  THEN LET image == face_base64_to_image(p)
       IN  IF image.ok THEN extract_face_encoding(image.val) ELSE image
  ELSE IF m = "voice" THEN extract_voice_features(p)
  ELSE LET image == fingerprint_base64_to_image(p)
       IN  IF image.ok THEN extract_fingerprint_encoding(image.val) ELSE image

\* AES.new draws an IV only in a call that reaches encrypt
Draws(m, p) ==
  IF m \in {"face", "voice"} /\ FeaturesOf(m, p).ok THEN IVs \cup {RngFail}
  ELSE {RngFail}

Next ==
  \/ \E u \in UserNames, m \in Modalities, p \in Payloads :
       \E iv \in Draws(m, p) : Enroll(u, m, p, iv)
  \/ \E u \in UserNames, m \in Modalities, p \in Payloads : Verify(u, m, p)
  \/ \E u \in UserNames, m \in Modalities, enabled \in BOOLEAN : Toggle(u, m, enabled)
  \/ Return

Spec == Init /\ [][Next]_vars

(***************************************************************************)
(* Overlapping calls: one enroll and one verify for the same pair, each    *)
(* with its own session, interleaved at the statements that reach the      *)
(* table.                                                                  *)
(***************************************************************************)
\* what the table can hold for a pair when the two calls arrive: the seeded
\* rows, a row enabled by toggle, or the row written by an earlier enroll
PreStates(u, m) ==
  {[store |-> SeededRows, instance |-> None, produced |-> {}],
   [store |-> toggle_biometric(SeededRows, None, u, m, TRUE).store, instance |-> None,
    produced |-> {}]}
  \cup {[store |-> h.store, instance |-> h.instance, produced |-> {h.resp.written}] :
          h \in {g \in {enroll_biometric(SeededRows, None, u, m, p, iv) :
                          p \in Payloads, iv \in IVs} : g.resp.success}}

ConcInit ==
  \E u \in UserNames, m \in Modalities :
    \E pre \in PreStates(u, m) :
      /\ store = pre.store
      /\ instance = pre.instance
      /\ produced = pre.produced
      /\ enrollTask = [pc |-> "start", user |-> u, biometric_type |-> m,
                       before |-> QueryFirst(pre.store, u, m),
                       data |-> None, existing |-> 0]
      /\ verifyTask = [pc |-> "start", user |-> u, biometric_type |-> m,
                       snapshot |-> NoRecord, resp |-> NoResponse]
      /\ last = NoResponse
      /\ writes = 0
      /\ enrolledPairs = {}
      /\ reenable = [pr \in Pairs |-> Idle]
      /\ call = NoTask

\* enroll, lines 163-192: the template is computed, or the call ends with an error
EnrollCompute(p, iv) ==
  /\ enrollTask.pc = "start"
  /\ Users[enrollTask.user].is_active
  /\ \E e \in {EnrollmentData(instance, enrollTask.biometric_type, p, iv)} :
       /\ instance' = e.instance
       /\ enrollTask' = IF e.r.ok
                        THEN [enrollTask EXCEPT !.pc = "computed", !.data = e.r.val]
                        ELSE [enrollTask EXCEPT !.pc = "failed"]
  /\ UNCHANGED <<store, verifyTask, produced, seq, call>>

\* enroll, lines 195-210: the query, and the changes held by the session
EnrollQuery ==
  /\ enrollTask.pc = "computed"
  /\ enrollTask' = [enrollTask EXCEPT
                      !.pc = "queried",
                      !.existing = Existing(store, enrollTask.user,
                                            enrollTask.biometric_type)]
  /\ UNCHANGED <<store, instance, verifyTask, produced, seq, call>>

\* enroll, line 212: the commit
EnrollCommit ==
  /\ enrollTask.pc = "queried"
  /\ store' = WriteRow(store, enrollTask.existing, enrollTask.user,
                       enrollTask.biometric_type, enrollTask.data)
  /\ produced' = produced \cup {enrollTask.data}
  /\ enrollTask' = [enrollTask EXCEPT !.pc = "done"]
  /\ UNCHANGED <<instance, verifyTask, seq, call>>

\* verify, lines 225-229: the query
VerifyQuery ==
  /\ verifyTask.pc = "start"
  /\ verifyTask' = [verifyTask EXCEPT
                      !.pc = "read",
                      !.snapshot = QueryFirst(store, verifyTask.user,
                                              verifyTask.biometric_type)]
  /\ UNCHANGED <<store, instance, enrollTask, produced, seq, call>>

\* verify, lines 231-313: the rest of the call, on the row the query returned
VerifyFinish(p) ==
  /\ verifyTask.pc = "read"
  /\ \E v \in {VerifyRow(instance, verifyTask.user, verifyTask.biometric_type, p,
                         verifyTask.snapshot)} :
       /\ instance' = v.instance
       /\ verifyTask' = [verifyTask EXCEPT !.pc = "done", !.resp = v.resp]
  /\ UNCHANGED <<store, enrollTask, produced, seq, call>>

ConcNext ==
  \/ \E p \in Payloads :
       \E iv \in Draws(enrollTask.biometric_type, p) : EnrollCompute(p, iv)
  \/ EnrollQuery
  \/ EnrollCommit
  \/ VerifyQuery
  \/ \E p \in Payloads : VerifyFinish(p)

SpecConc == ConcInit /\ [][ConcNext]_vars

(***************************************************************************)
(* Direct calls of the verify function of a modality's service, on any     *)
(* payload and any stored blob.                                            *)
(***************************************************************************)
\* length and element range of the feature vectors drawn as inputs
MaxFeatLen == 3
MaxFeatVal == 2
Vectors == UNION {[1..k -> 0..MaxFeatVal] : k \in 0..MaxFeatLen}
\* the vectors an extractor of some version may have stored
StoredVectors ==
  {v \in Vectors : Len(v) > 0}
    \cup {Captures[c].feat : c \in {d \in DOMAIN Captures : Len(Captures[d].feat) > 0}}
\* tolerances a caller passes, in percent
TolerancePcts == {0, 5, 10, 50, 110, 150}

\* a blob with byte j of its IV line, or of its ciphertext line, changed by d
TamperIv(blob, j, d) ==
  Lines(B64Encode([B64Decode(blob.v[1]).val EXCEPT ![j] = (@ + d) % ByteMod]), blob.v[2])
TamperCt(blob, j, d) ==
  Lines(blob.v[1], B64Encode([B64Decode(blob.v[2]).val EXCEPT ![j] = (@ + d) % ByteMod]))

\* the blob enroll stores for a feature vector
TemplateOf(v) == encrypt(Service, IV(1), dumps(v)).val
\* stored values that are not the encryption of a JSON list: an empty column, a
\* placeholder text, a blob with a damaged last block, the encryption of a cut text
CorruptTemplates ==
  {None, Text("mock_fingerprint_data"),
   TamperCt(TemplateOf(<<1>>), Len(B64Decode(TemplateOf(<<1>>).v[2]).val), 1),
   encrypt(Service, IV(1), <<"[", "1">>).val}
Templates == {TemplateOf(v) : v \in StoredVectors} \cup CorruptTemplates

\* the API at rest
ApiIdle ==
  /\ store = SeededRows
  /\ instance = None
  /\ last = NoResponse
  /\ writes = 0
  /\ enrolledPairs = {}
  /\ reenable = [pr \in Pairs |-> Idle]
  /\ enrollTask = NoTask
  /\ verifyTask = NoTask
  /\ produced = {}

ServiceInit ==
  /\ ApiIdle
  /\ \E m \in Modalities, p \in Payloads, t \in Templates, pct \in TolerancePcts :
       call = [phase |-> "input", biometric_type |-> m, sample |-> p, stored |-> t,
               tolerance |-> pct]

\* verify_face / verify_voice / verify_fingerprint on the arguments of the call
ServiceVerify ==
  /\ call.phase = "input"
  /\ call' = [call EXCEPT !.phase = "verified"] @@
             [r |-> IF call.biometric_type = "face"
                    THEN verify_face(Service, call.sample, call.stored,
                                     Tolerance(call.tolerance))
                    ELSE IF call.biometric_type = "voice"
                    THEN verify_voice(Service, call.sample, call.stored,
                                      Tolerance(call.tolerance))
                    ELSE verify_fingerprint(Service, call.sample, call.stored,
                                            Tolerance(call.tolerance))]
  /\ UNCHANGED api

ServiceNext == ServiceVerify

SpecService == ServiceInit /\ [][ServiceNext]_vars

(***************************************************************************)
(* SpecScore: the scoring part of a modality's verify, applied to a pair   *)
(* of vectors of one length: a vector with itself, with the zero vector,   *)
(* with a vector an extractor produced, in either order.                   *)
(***************************************************************************)
Zeros(n) == [i \in 1..n |-> 0]
IsZero(v) == \A i \in 1..Len(v) : v[i] = 0
IsConstant(v) == \A i \in 1..Len(v), j \in 1..Len(v) : v[i] = v[j]

\* the vectors a drawn vector is compared with
Companions(a) ==
  {a, Zeros(Len(a))}
    \cup {Truncate(Captures[c].feat, Len(a)) :
            c \in {d \in DOMAIN Captures : Len(Captures[d].feat) >= Len(a)}}

\* lines 248-309 of verify_face, 184-250 of verify_voice, 195-245 of
\* verify_fingerprint
Score(m, new, stored, tolerance) ==
  IF m = "face" THEN FaceScore(new, stored, tolerance)
  ELSE IF m = "voice" THEN VoiceScore(new, stored, tolerance)
  ELSE FingerprintScore(new, stored, tolerance)

\* the correlation term that enters the weighted sum of a modality's scorer
CorrelationTerm(m, new, stored) ==
  IF m = "face" THEN FaceCorrelation(new, stored)
  ELSE IF m = "voice" THEN VoiceCorrelation(new, stored)
  ELSE FingerprintCorrelation(new, stored)

ScoreInit ==
  /\ ApiIdle
  /\ \E m \in Modalities, a \in Vectors, pct \in TolerancePcts, swap \in BOOLEAN :
       \E b \in Companions(a) :
         call = [phase |-> "pair", biometric_type |-> m, tolerance |-> pct,
                 new |-> IF swap THEN b ELSE a, stored |-> IF swap THEN a ELSE b]

ScorePair ==
  /\ call.phase = "pair"
  /\ call' = [call EXCEPT !.phase = "scored"]
               @@ [r |-> Score(call.biometric_type, call.new, call.stored,
                               Tolerance(call.tolerance))]
  /\ UNCHANGED api

ScoreNext == ScorePair

SpecScore == ScoreInit /\ [][ScoreNext]_vars

(***************************************************************************)
(* SpecCipher: one EncryptionService used directly.  A plaintext (a str    *)
(* for encrypt/decrypt, bytes for encrypt_bytes/decrypt_bytes) is          *)
(* encrypted up to MaxEncrypts times, each call drawing the next IV; any   *)
(* of the blobs is then decrypted as it is, with one byte of it changed,   *)
(* or by a service constructed with other arguments.                       *)
(***************************************************************************)
MaxEncrypts == 2
MaxBytesLen == 3

\* constructor arguments: the configured values and one other value each
Secrets == {BIOMETRIC_ENCRYPTION_KEY, 9}
Salts == {BIOMETRIC_ENCRYPTION_SALT, 12}

CipherTexts ==
  {dumps(v) : v \in {<<>>, <<1>>, <<1, 2>>, <<3, 1, 2>>}}
    \cup {<<>>, <<"1">>, <<"0", "0">>}
ByteSamples == {0, 1, 2, ByteMod - 1}
CipherBytes == UNION {[1..k -> ByteSamples] : k \in 0..MaxBytesLen}

\* one byte of an encrypt_bytes blob changed
TamperBytes(blob, j, d) == [blob EXCEPT ![j] = (@ + d) % ByteMod]

CipherInit ==
  /\ ApiIdle
  /\ \E password \in Secrets, other_password \in Secrets, other_salt \in Salts,
        mode \in {"text", "bytes"} :
       \E data \in (IF mode = "text" THEN CipherTexts ELSE CipherBytes) :
         call = [phase |-> "plain", mode |-> mode, data |-> data,
                 svc |-> EncryptionService(password, BIOMETRIC_ENCRYPTION_SALT),
                 other |-> EncryptionService(other_password, other_salt),
                 blobs |-> <<>>, picked |-> 0, tampered |-> "none", out |-> None]

\* encrypt / encrypt_bytes of the plaintext, with the next IV of the random source
CipherEncrypt ==
  /\ Len(call.blobs) < MaxEncrypts
  /\ LET iv == IV(Len(call.blobs) + 1)
         r == IF call.mode = "text" THEN encrypt(call.svc, iv, call.data)
              ELSE encrypt_bytes(call.svc, iv, call.data)
     IN  call' = [call EXCEPT !.phase = "encrypted", !.blobs = Append(@, r.val),
                              !.picked = 0, !.tampered = "none", !.out = None]
  /\ UNCHANGED api

Decrypted(i, how, r) ==
  [call EXCEPT !.phase = "decrypted", !.picked = i, !.tampered = how, !.out = r]

\* decrypt / decrypt_bytes of one of the blobs by the service that made it
CipherDecrypt ==
  /\ \E i \in 1..Len(call.blobs) :
       call' = Decrypted(i, "none",
                         IF call.mode = "text" THEN decrypt(call.svc, call.blobs[i])
                         ELSE decrypt_bytes(call.svc, call.blobs[i]))
  /\ UNCHANGED api

\* decrypt of a blob whose IV part has one byte changed
CipherDecryptTamperedIv ==
  /\ \E i \in 1..Len(call.blobs), j \in 1..BlockLen :
       call' = Decrypted(i, "iv",
                         IF call.mode = "text"
                         THEN decrypt(call.svc, TamperIv(call.blobs[i], j, 1))
                         ELSE decrypt_bytes(call.svc, TamperBytes(call.blobs[i], j, 1)))
  /\ UNCHANGED api

\* decrypt of a blob whose ciphertext part has one byte changed
CipherDecryptTamperedCt ==
  /\ \E i \in 1..Len(call.blobs) :
       IF call.mode = "text"
       THEN \E j \in 1..Len(B64Decode(call.blobs[i].v[2]).val) :
              call' = Decrypted(i, "ciphertext",
                                decrypt(call.svc, TamperCt(call.blobs[i], j, 1)))
       ELSE \E j \in (BlockLen + 1)..Len(call.blobs[i]) :
              call' = Decrypted(i, "ciphertext",
                                decrypt_bytes(call.svc, TamperBytes(call.blobs[i], j, 1)))
  /\ UNCHANGED api

\* decrypt of a blob by the service constructed with the other arguments
CipherDecryptOther ==
  /\ \E i \in 1..Len(call.blobs) :
       call' = Decrypted(i, "service",
                         IF call.mode = "text" THEN decrypt(call.other, call.blobs[i])
                         ELSE decrypt_bytes(call.other, call.blobs[i]))
  /\ UNCHANGED api

CipherNext ==
  \/ CipherEncrypt
  \/ CipherDecrypt
  \/ CipherDecryptTamperedIv
  \/ CipherDecryptTamperedCt
  \/ CipherDecryptOther

SpecCipher == CipherInit /\ [][CipherNext]_vars

(***************************************************************************)
(* SpecEncoding: the two grid computations of the fingerprint extractor.   *)
(* extract_minutiae_features is applied to every binary skeleton of        *)
(* GridRows x GridCols pixels; the block statistics of                     *)
(* extract_fingerprint_encoding are laid over the resized image of         *)
(* ImageSide x ImageSide pixels.                                           *)
(***************************************************************************)
GridRows == 2
GridCols == 3
ImageSide == 256
block_size == 32

Grid == (1..GridRows) \X (1..GridCols)
Skeletons == [Grid -> {0, 1}]

\* variant: pixels outside the image repeat the nearest border pixel
PixelReplicate(img, i, j) ==
  LET ci == IF i < 1 THEN 1 ELSE IF i > GridRows THEN GridRows ELSE i
      cj == IF j < 1 THEN 1 ELSE IF j > GridCols THEN GridCols ELSE j
  IN  img[<<ci, cj>>]
\* borderType = cv2.BORDER_CONSTANT: pixels outside the image are 0
Pixel(img, i, j) ==
  IF i < 1 \/ i > GridRows \/ j < 1 \/ j > GridCols THEN 0 ELSE img[<<i, j>>]

\* line 47: weight 10 at the centre, 1 around it
kernel(di, dj) == IF di = 0 /\ dj = 0 THEN 10 ELSE 1
Offsets ==
  <<<<0 - 1, 0 - 1>>, <<0 - 1, 0>>, <<0 - 1, 1>>, <<0, 0 - 1>>, <<0, 0>>, <<0, 1>>,
    <<1, 0 - 1>>, <<1, 0>>, <<1, 1>>>>

RECURSIVE Correlate(_, _, _, _)
Correlate(img, i, j, k) ==
  IF k > Len(Offsets) THEN 0
  ELSE kernel(Offsets[k][1], Offsets[k][2])
         * Pixel(img, i + Offsets[k][1], j + Offsets[k][2])
       + Correlate(img, i, j, k + 1)

\* cv2.filter2D(skeleton, -1, kernel, ...): the result saturates at 255 (uint8)
filter2D(img, i, j) ==
  LET t == Correlate(img, i, j, 1) IN IF t > 255 THEN 255 ELSE t

\* extract_minutiae_features on the skeleton (lines 47-60)
extract_minutiae_features(skeleton) ==
  LET term_coords == {p \in Grid : filter2D(skeleton, p[1], p[2]) = 11}
      bif_coords == {p \in Grid : filter2D(skeleton, p[1], p[2]) = 13}
  IN  [terminations |-> Cardinality(term_coords),
       bifurcations |-> Cardinality(bif_coords),
       term_coords |-> term_coords, bif_coords |-> bif_coords]

\* Python's range(0, stop, step)
Range0(stop, step) == {i \in 0..(stop - 1) : i % step = 0}

\* lines 114-118: the top-left corners of the blocks whose statistics are taken
BlockOrigins(h, w) ==
  {<<i, j>> : i \in Range0(h - block_size, block_size),
              j \in Range0(w - block_size, block_size)}

EncodingInit ==
  /\ ApiIdle
  /\ \E skeleton \in Skeletons : call = [phase |-> "skeleton", skeleton |-> skeleton]

\* extract_fingerprint_encoding, lines 80 and 113-124
ExtractEncoding ==
  /\ call.phase = "skeleton"
  /\ call' = [phase |-> "encoded", skeleton |-> call.skeleton,
              minutiae |-> extract_minutiae_features(call.skeleton),
              blocks |-> BlockOrigins(ImageSide, ImageSide)]
  /\ UNCHANGED api

EncodingNext == ExtractEncoding

SpecEncoding == EncodingInit /\ [][EncodingNext]_vars

(***************************************************************************)
(* SpecAuth: the bearer-token checks in front of the command endpoints.    *)
(* A client logs in, may obtain the token a successful biometric verify    *)
(* returns, and sends requests with the token it holds, with a token       *)
(* signed by another key, or with text that is no token; time passes in    *)
(* ticks and a token expires TokenLife ticks after it was issued.          *)
(***************************************************************************)
MaxNow == 2
TokenLife == 1
SECRET_KEY == 13

\* rows of the users table seen by the token checks: an inactive account too
Accounts == Users @@ [bob |-> [role |-> "user", is_active |-> FALSE]]
AccountNames == DOMAIN Accounts

\* jwt.encode / jwt.decode: the claims with a signature made with the key;
\* decode fails on a wrong signature and on an expired token
JwtEncode(claims, key) == [claims |-> claims, mac |-> <<key, claims>>]
JwtDecode(token, key, now) ==
  IF token.mac # <<key, token.claims>> THEN Err("JWTError")
  ELSE IF token.claims.exp <= now THEN Err("JWTError")
  ELSE Ok(token.claims)
NotAToken == [claims |-> None, mac |-> <<>>]

\* create_access_token with its expiry, encoded
AccessToken(sub, biometric_verified, now) ==
  JwtEncode([exp |-> now + TokenLife] @@ create_access_token(sub, biometric_verified),
            SECRET_KEY)

Deny(status_code) == [ok |-> FALSE, status |-> status_code]

get_current_user(token, now) ==
  LET payload == JwtDecode(token, SECRET_KEY, now)
  IN  IF ~payload.ok THEN Deny(401)
      ELSE IF payload.val.sub \notin AccountNames THEN Deny(401)
      ELSE Ok(payload.val.sub)

get_current_active_user(token, now) ==
  LET current_user == get_current_user(token, now)
  IN  IF ~current_user.ok THEN current_user
      ELSE IF ~Accounts[current_user.val].is_active THEN Deny(400)
      ELSE current_user

get_current_admin_user(token, now) ==
  LET current_user == get_current_active_user(token, now)
  IN  IF ~current_user.ok THEN current_user
      ELSE IF Accounts[current_user.val].role # "admin" THEN Deny(403)
      ELSE current_user

get_biometric_verified_user(token, now) ==
  LET current_user == get_current_active_user(token, now)
      payload == JwtDecode(token, SECRET_KEY, now)
  IN  IF ~current_user.ok THEN current_user
      ELSE IF ~payload.ok THEN Deny(401)
      ELSE IF ~payload.val.biometric_verified THEN Deny(403)
      ELSE current_user

\* login: a token with biometric_verified = False for a known user
login(username, password_ok, now) ==
  IF username \notin AccountNames \/ ~password_ok
  THEN [status |-> 401, token |-> NotAToken]
  ELSE [status |-> 200, token |-> AccessToken(username, FALSE, now)]

\* the dependency each command endpoint declares
CommandEndpoints == {"GET /commands", "POST /commands", "POST /commands/execute"}
Guard(endpoint, token, now) ==
  IF endpoint = "POST /commands" THEN get_current_admin_user(token, now)
  ELSE get_biometric_verified_user(token, now)

\* a token for the same subject with the flag set, signed with another key
Forged(token, now) ==
  IF token = NotAToken THEN NotAToken
  ELSE JwtEncode([exp |-> now + TokenLife]
                   @@ create_access_token(token.claims.sub, TRUE), SECRET_KEY + 1)

NoRequest == [endpoint |-> "none", token |-> NotAToken, status |-> 0, reached |-> FALSE,
              at |-> 0]

AuthInit ==
  /\ ApiIdle
  /\ call = [phase |-> "auth", now |-> 0, held |-> NotAToken, origin |-> "none",
             resp |-> NoRequest]

\* POST /auth/login
AuthLogin(username, password_ok) ==
  /\ call.phase = "auth"
  /\ LET r == login(username, password_ok, call.now)
     IN  call' = [call EXCEPT !.held = IF r.status = 200 THEN r.token ELSE @,
                              !.origin = IF r.status = 200 THEN "login" ELSE @,
                              !.resp = NoRequest]
  /\ UNCHANGED api

\* POST /biometric/verify answering success: lines 246-251, 278-283, 301-306
AuthVerified ==
  /\ call.phase = "auth"
  /\ get_current_user(call.held, call.now).ok
  /\ call' = [call EXCEPT
                !.held = AccessToken(get_current_user(call.held, call.now).val, TRUE,
                                     call.now),
                !.origin = "verify", !.resp = NoRequest]
  /\ UNCHANGED api

AuthTick ==
  /\ call.phase = "auth"
  /\ call.now < MaxNow
  /\ call' = [call EXCEPT !.now = @ + 1, !.resp = NoRequest]
  /\ UNCHANGED api

\* a request to a command endpoint, up to the point where its function starts
AuthRequest(endpoint, token) ==
  /\ call.phase = "auth"
  /\ LET g == Guard(endpoint, token, call.now)
     IN  call' = [call EXCEPT !.resp = [endpoint |-> endpoint, token |-> token,
                                        status |-> IF g.ok THEN 200 ELSE g.status,
                                        reached |-> g.ok, at |-> call.now]]
  /\ UNCHANGED api

AuthNext ==
  \/ \E username \in AccountNames \cup {"ghost"}, password_ok \in BOOLEAN :
       AuthLogin(username, password_ok)
  \/ AuthVerified
  \/ AuthTick
  \/ \E endpoint \in CommandEndpoints :
       \E token \in {call.held, Forged(call.held, call.now), NotAToken} :
         AuthRequest(endpoint, token)

SpecAuth == AuthInit /\ [][AuthNext]_vars

(***************************************************************************)
(* SpecCommands: the command endpoints and the task execute_command        *)
(* starts.  The commands table holds the seeded commands and those         *)
(* create_command added; each execute_command that passes its checks adds  *)
(* a CommandLog and leaves a task that finishes the log after its sleep.   *)
(* SpecCommandsLive adds that the event loop runs every task it was given. *)
(***************************************************************************)
MaxLogs == 2
MaxCommands == 3

\* init_db: the seeded commands, all enabled (two stand for the eight)
SeededCommands == <<[is_enabled |-> TRUE], [is_enabled |-> TRUE]>>

\* variant: a log created in another status
CommandLogPending(command_id, user_id) ==
  [command_id |-> command_id, user_id |-> user_id, status |-> "pending", output |-> None]
\* lines 413-417: the log execute_command creates
CommandLog(command_id, user_id) ==
  [command_id |-> command_id, user_id |-> user_id, status |-> "running", output |-> None]

\* lines 436-438: the status and output execute_command_async writes
FinishLog(command_log, success) ==
  [command_log EXCEPT
     !.status = IF success THEN "success" ELSE "failed",
     !.output = IF success THEN Text("Command completed successfully")
                ELSE Text("Error: Command failed")]

\* the tokens the requests carry: of a verified admin, and of an admin who
\* only logged in
CommandTokens == {AccessToken("admin", TRUE, 0), AccessToken("admin", FALSE, 0)}

CommandsInit ==
  /\ ApiIdle
  /\ call = [phase |-> "commands", commands |-> SeededCommands, logs |-> <<>>,
             tasks |-> {}, status |-> 0]

\* POST /commands
CreateCommand(token, is_enabled) ==
  /\ call.phase = "commands"
  /\ LET current_user == get_current_admin_user(token, 0)
     IN  IF ~current_user.ok
         THEN call' = [call EXCEPT !.status = current_user.status]
         ELSE /\ Len(call.commands) < MaxCommands
              /\ call' = [call EXCEPT !.commands = Append(@, [is_enabled |-> is_enabled]),
                                       !.status = 200]
  /\ UNCHANGED api

\* POST /commands/execute
ExecuteCommand(token, command_id) ==
  /\ call.phase = "commands"
  /\ LET current_user == get_biometric_verified_user(token, 0)
     IN  IF ~current_user.ok
         THEN call' = [call EXCEPT !.status = current_user.status]
         ELSE IF command_id \notin 1..Len(call.commands)
         THEN call' = [call EXCEPT !.status = 404]
         ELSE IF ~call.commands[command_id].is_enabled
         THEN call' = [call EXCEPT !.status = 400]
         ELSE /\ Len(call.logs) < MaxLogs
              /\ call' = [call EXCEPT
                            !.logs = Append(@, CommandLog(command_id, current_user.val)),
                            !.tasks = @ \cup {Len(call.logs) + 1},
                            !.status = 200]
  /\ UNCHANGED api

\* execute_command_async(log_id, db), after its sleep; success is the draw of
\* random.random() > 0.2
RunTask(log_id, success) ==
  /\ call.phase = "commands"
  /\ log_id \in call.tasks
  /\ call' = [call EXCEPT
                !.logs = IF log_id \in 1..Len(@)
                         THEN [@ EXCEPT ![log_id] = FinishLog(@, success)]
                         ELSE @,
                !.tasks = @ \ {log_id}]
  /\ UNCHANGED api

CommandsNext ==
  \/ \E token \in CommandTokens, is_enabled \in BOOLEAN : CreateCommand(token, is_enabled)
  \/ \E token \in CommandTokens, command_id \in 1..(MaxCommands + 1) :
       ExecuteCommand(token, command_id)
  \/ \E log_id \in 1..MaxLogs, success \in BOOLEAN : RunTask(log_id, success)

SpecCommands == CommandsInit /\ [][CommandsNext]_vars

SpecCommandsLive ==
  /\ SpecCommands
  /\ \A log_id \in 1..MaxLogs : WF_vars(\E success \in BOOLEAN : RunTask(log_id, success))

(***************************************************************************)
(* Properties of the sequential API (Spec).                                *)
(***************************************************************************)
\* the row the last call addressed
Target == QueryFirst(store, last.user, last.biometric_type)
\* a stored template that cannot be decrypted and deserialized
Undecodable(template) ==
  \/ ~decrypt(Service, template).ok
  \/ ~loads(decrypt(Service, template).val).ok
\* a template that is the encryption of the serialized features of payload p
EncryptsFeaturesOf(template, m, p) ==
  /\ FeaturesOf(m, p).ok
  /\ \E iv \in IVs : template = encrypt(Service, iv, dumps(FeaturesOf(m, p).val)).val

\* C1: a verify response carries a token with biometric_verified = true only
\* when the matcher compared the sample with the stored template and matched;
\* every other verify response carries no token.
C1_TokenOnlyAfterMatch ==
  last.op = "verify" =>
    IF last.compared /\ last.matched /\ last.template = Target.enrollment_data
    THEN last.token # None => last.token.biometric_verified
    ELSE last.token = None

\* C2: verify on a pair with no row, or with a row whose is_enrolled is false,
\* answers success = false, "not enrolled", without a token, and runs neither
\* the extractor nor the decryption.
C2_NotEnrolledShortCircuit ==
  (/\ last.op = "verify"
   /\ (Target = NoRecord \/ ~Target.is_enrolled))
    => /\ ~last.success
       /\ last.message = "not enrolled"
       /\ last.token = None
       /\ ~last.extractor
       /\ ~last.decrypt
       /\ ~last.compared

\* C2 case: verify with a usable sample on a row disabled after an enrollment
C2_Witness ==
  /\ last.op = "verify"
  /\ Target # NoRecord
  /\ ~Target.is_enrolled
  /\ Target.enrollment_data # None
  /\ last.biometric_type = "face"
  /\ FeaturesOf(last.biometric_type, last.sample).ok
  /\ last.message = "not enrolled"

\* C3: while no enroll call has completed for a pair, verify on it answers
\* "not enrolled" without running the extractor, also after toggle(true) on a
\* seeded row whose enrollment_data is empty.
C3_NoEnrollmentNoVerification ==
  (/\ last.op = "verify"
   /\ <<last.user, last.biometric_type>> \notin enrolledPairs)
    => /\ ~last.success
       /\ last.message = "not enrolled"
       /\ last.token = None
       /\ ~last.extractor

\* at most one row per (user, modality)
OnePerPair(st) ==
  \A i, j \in 1..Len(st) :
    (st[i].user_id = st[j].user_id /\ st[i].biometric_type = st[j].biometric_type)
      => i = j

\* C4: the store holds at most one row per (user, modality), and a successful
\* enroll leaves the pair's single row holding the template it wrote.
C4_OneRecordPerPair ==
  /\ OnePerPair(store)
  /\ (last.op = "enroll" /\ last.success)
       => /\ Cardinality(Matching(store, last.user, last.biometric_type)) = 1
          /\ Target.enrollment_data = last.written
          /\ Target.is_enrolled

\* C4 case: a second enrollment of a pair that an earlier enroll call created
C4_Witness ==
  /\ last.op = "enroll"
  /\ last.success
  /\ last.replaced
  /\ last.user = "alice"
  /\ last.biometric_type = "face"
  /\ Len(store) = 4

\* C5: after a successful enroll the row has is_enrolled = true and its
\* template is the cipher's encryption of the serialized features the
\* modality's extractor produced from the sample; the raw payload or a
\* placeholder is never stored.
C5_TemplateIsEncryptedFeatures ==
  (last.op = "enroll" /\ last.success)
    => /\ Target # NoRecord
       /\ Target.is_enrolled
       /\ EncryptsFeaturesOf(Target.enrollment_data, last.biometric_type, last.sample)
       /\ Target.enrollment_data # last.sample
       /\ Target.enrollment_data.kind # "text"

\* C6: an enroll call that fails leaves every row as it was and adds none.
C6_FailedEnrollKeepsStore ==
  [][(last'.op = "enroll" /\ ~last'.success) => store' = store]_vars

\* C6 case: the encryption failed while the pair already held a template
C6_Witness ==
  /\ last.op = "enroll"
  /\ ~last.success
  /\ last.extractor
  /\ FeaturesOf(last.biometric_type, last.sample).ok
  /\ Target # NoRecord
  /\ Target.is_enrolled
  /\ Target.enrollment_data # None

C9_DisableThenReenable ==
  last.op = "verify" =>
    LET history == reenable[<<last.user, last.biometric_type>>]
    IN  /\ history.phase = "off"
             => /\ last.message = "not enrolled"
                /\ last.token = None
        /\ history.phase = "on"
             => /\ Target.enrollment_data = history.template
                /\ FeaturesOf(last.biometric_type, last.sample).ok
                     => /\ last.compared
                        /\ last.template = history.template

\* C10: verify on an enabled row whose template cannot be decrypted or
\* deserialized ends with an error that is neither "not enrolled" nor
\* "verification failed", without a match decision and without a token.
C10_UndecodableTemplateAborts ==
  (/\ last.op = "verify"
   /\ Target # NoRecord
   /\ Target.is_enrolled
   /\ Undecodable(Target.enrollment_data)
   /\ FeaturesOf(last.biometric_type, last.sample).ok)
    => /\ last.status # 200
       /\ ~last.success
       /\ last.message \notin {"not enrolled", "verification failed"}
       /\ ~last.compared
       /\ last.token = None

\* the tolerance verify_biometric leaves at the service's default, in percent
DefaultTolerance(m) ==
  IF m = "face" THEN FaceTolerance
  ELSE IF m = "voice" THEN VoiceTolerance ELSE FingerprintTolerance

\* C12: when the stored template is the one enroll produced from a sample, a
\* verify with the same sample answers success = true with a confidence of at
\* least 100 x (1 - default tolerance) and a token with biometric_verified set.
C12_EnrollThenVerifySameSample ==
  (/\ last.op = "verify"
   /\ Target # NoRecord
   /\ Target.is_enrolled
   /\ EncryptsFeaturesOf(Target.enrollment_data, last.biometric_type, last.sample))
    => /\ last.success
       /\ last.status = 200
       /\ last.token # None
       /\ last.token.biometric_verified
       /\ Len(last.confidence) = 1
       /\ last.confidence[1] >= 100 * (Scale - Tolerance(DefaultTolerance(last.biometric_type)))

\* C12 case: a face verify with the sample the pair was enrolled with
C12_Witness ==
  /\ last.op = "verify"
  /\ last.biometric_type = "face"
  /\ last.sample = Text("s1")
  /\ Target # NoRecord
  /\ Target.is_enrolled
  /\ EncryptsFeaturesOf(Target.enrollment_data, "face", Text("s1"))
  /\ last.success

(***************************************************************************)
(* Properties of overlapping calls (SpecConc).                             *)
(***************************************************************************)
\* C7: a verify that overlaps an enroll for the same pair reads either the row
\* as it was before the enroll or the row the enroll committed, flag and
\* template together; it compares or issues a token only on a row with
\* is_enrolled = true whose template a completed enroll produced.
C7_VerifySeesCompleteRecord ==
  verifyTask.pc \in {"read", "done"} =>
    /\ \/ verifyTask.snapshot = enrollTask.before
       \/ /\ enrollTask.pc = "done"
          /\ verifyTask.snapshot =
               QueryFirst(store, verifyTask.user, verifyTask.biometric_type)
          /\ verifyTask.snapshot.is_enrolled
          /\ verifyTask.snapshot.enrollment_data = enrollTask.data
    /\ (/\ verifyTask.pc = "done"
        /\ (verifyTask.resp.compared \/ verifyTask.resp.token # None))
         => /\ verifyTask.snapshot.is_enrolled
            /\ verifyTask.snapshot.enrollment_data \in produced

(***************************************************************************)
(* Properties of the services' verify functions (SpecService).             *)
(***************************************************************************)
\* the errors a failed decryption or deserialization of the template ends in
DecryptionErrors ==
  {"Face verification failed: decrypt", "Face verification failed: deserialize",
   "Voice verification failed: decrypt", "Voice verification failed: deserialize",
   "Fingerprint verification failed: decrypt",
   "Fingerprint verification failed: deserialize"}

\* C11: verify decrypts and deserializes the stored template before it runs the
\* extractor: with a corrupted template the call ends in a decryption error,
\* without an extractor run, whatever the submitted sample is.
C11_DecryptBeforeExtract ==
  (call.phase = "verified" /\ Undecodable(call.stored))
    => /\ ~call.r.ok
       /\ call.r.err \in DecryptionErrors
       /\ ~call.r.extractor


\* C16: once get_encryption_service has constructed the service, every later
\* call, in any interleaving of the steps of an enroll and a verify, leaves
\* _encryption_service_instance the same object with the same key; no second
\* object is constructed.
C16_SingletonService ==
  [][/\ instance # None => instance' = instance
     /\ instance' # None => /\ instance'.ident = 1
                            /\ instance'.encryption_key = SHA256(BIOMETRIC_ENCRYPTION_KEY)]_vars

\* C16 case: an enroll and a verify of a face have both used the service
C16_Witness ==
  /\ instance # None
  /\ enrollTask.pc = "done"
  /\ enrollTask.biometric_type = "face"
  /\ verifyTask.pc = "done"
  /\ verifyTask.resp.decrypt

\* C23: a face enroll or verify that reaches the extractor with an image in
\* which zero or several faces are detected ends in a 400 response; the table
\* is left as it was, nothing is compared and no token is issued.
C23_OneFaceOnly ==
  [][(/\ last' # last
      /\ last'.op \in {"enroll", "verify"}
      /\ last'.biometric_type = "face"
      /\ last'.sample # None
      /\ Captures[last'.sample.v].decodes
      /\ Captures[last'.sample.v].faces # 1
      /\ last'.op = "verify"
           => LET row == QueryFirst(store, last'.user, "face")
              IN  row # NoRecord /\ row.is_enrolled)
       => /\ last'.status = 400
          /\ ~last'.success
          /\ last'.extractor
          /\ ~last'.compared
          /\ last'.token = None
          /\ last'.written = None
          /\ store' = store]_vars

\* C23 case: a verify of an enrolled face with an image showing two faces
C23_Witness ==
  /\ last.op = "verify"
  /\ last.biometric_type = "face"
  /\ last.sample = Text("crowd")
  /\ Target # NoRecord
  /\ Target.is_enrolled
  /\ last.extractor
  /\ last.status = 400

C29_OtherRecordsUnchanged ==
  [][/\ Len(store') >= Len(store)
     /\ \A i \in 1..Len(store) :
          (store[i].user_id # last'.user \/ store[i].biometric_type # last'.biometric_type)
            => store'[i] = store[i]
     /\ \A i \in (Len(store) + 1)..Len(store') :
          /\ store'[i].user_id = last'.user
          /\ store'[i].biometric_type = last'.biometric_type]_vars

\* C29 case: an enroll has replaced the template of a pair while rows with a
\* template exist for another modality of the owner and for another owner
C29_Witness ==
  /\ last.op = "enroll"
  /\ last.success
  /\ last.replaced
  /\ \E i \in 1..Len(store) :
       /\ store[i].user_id = last.user
       /\ store[i].biometric_type # last.biometric_type
       /\ store[i].enrollment_data # None
  /\ \E i \in 1..Len(store) :
       /\ store[i].user_id # last.user
       /\ store[i].enrollment_data # None

\* C13: whatever was encrypted, and however many encrypt calls the service has
\* made, each blob decrypts under the same service to the plaintext it was made
\* from (encrypt/decrypt on text, encrypt_bytes/decrypt_bytes on bytes).
C13_RoundTrip ==
  (call.phase = "decrypted" /\ call.tampered = "none")
    => call.out = Ok(call.data)

\* C13 case: the first of several blobs of a byte string, decrypted after the
\* later encrypt calls
C13_Witness ==
  /\ call.phase = "decrypted"
  /\ call.tampered = "none"
  /\ call.mode = "bytes"
  /\ Len(call.data) > 0
  /\ Len(call.blobs) >= 2
  /\ call.picked = 1
  /\ call.blobs[1] # call.blobs[2]
  /\ call.out.ok

\* C14 (the IV case of it): decrypt of a blob whose IV part was changed ends
\* in a decryption error, never in a plaintext.
C14_TamperedIvIsError ==
  (call.phase = "decrypted" /\ call.tampered = "iv")
    => ~call.out.ok

\* C15: two services constructed with the same secret and different salts
\* hold different keys.
C15_KeyDependsOnSalt ==
  (/\ call.phase \in {"plain", "encrypted", "decrypted"}
   /\ call.svc.password = call.other.password
   /\ call.svc.salt # call.other.salt)
    => call.svc.encryption_key # call.other.encryption_key

\* C17: a non-empty vector scored against itself has combined similarity 1.0
\* and is a match for every tolerance above 0, whatever its elements are.
C17_SelfSimilarity ==
  (/\ call.phase = "scored"
   /\ Len(call.new) > 0
   /\ call.new = call.stored
   /\ call.tolerance > 0)
    => /\ call.r.similarity = Scale
       /\ call.r.success

\* C18: when one of the two scored vectors is the zero vector (the empty vector
\* included) the resulting similarity is 0.
C18_ZeroVectorScoresZero ==
  (call.phase = "scored" /\ (IsZero(call.new) \/ IsZero(call.stored)))
    => call.r.similarity = 0

\* C19: in every modality's verify, when the sample's vector and the stored
\* vector differ in length the call does not fail: its result is the score of
\* the two vectors cut to the shorter length.
C19_LengthMismatchTruncates ==
  (/\ call.phase = "verified"
   /\ FeaturesOf(call.biometric_type, call.sample).ok
   /\ ~Undecodable(call.stored)
   /\ Len(FeaturesOf(call.biometric_type, call.sample).val)
        # Len(loads(decrypt(Service, call.stored).val).val))
    => LET new == FeaturesOf(call.biometric_type, call.sample).val
           stored == loads(decrypt(Service, call.stored).val).val
           n == Min(Len(new), Len(stored))
       IN  /\ call.r.ok
           /\ call.r.val.similarity
                = Score(call.biometric_type, Truncate(new, n), Truncate(stored, n),
                        Tolerance(call.tolerance)).similarity

\* C20: in each modality's verify, for every tolerance passed, the reported
\* threshold is 1 - tolerance, success is true exactly when the similarity the
\* call reports is at least the threshold, and the confidence is that
\* similarity x 100 clamped to [0, 100].
C20_ThresholdAndConfidence ==
  (call.phase = "verified" /\ call.r.ok)
    => LET v == call.r.val
           pct100 == 100 * v.similarity
       IN  /\ v.threshold = Scale - ((Scale * call.tolerance) \div 100)
           /\ v.success <=> (~IsNaN(v.similarity) /\ v.similarity >= v.threshold)
           /\ ~IsNaN(v.similarity)
                => v.confidence = (IF pct100 < 0 THEN 0
                                   ELSE IF pct100 > 100 * Scale THEN 100 * Scale
                                   ELSE pct100)

\* C20 case: a face verify with a tolerance the caller chose, matching with a
\* confidence below 100
C20_Witness ==
  /\ call.phase = "verified"
  /\ call.biometric_type = "face"
  /\ call.tolerance = 50
  /\ call.r.ok
  /\ call.r.val.success
  /\ call.r.val.confidence < 100 * Scale
  /\ call.r.val.similarity >= call.r.val.threshold

\* C20 as stated: success is true exactly when the weighted sum of the metrics
\* is at least the threshold.
C20_SuccessIffWeightedSum ==
  (call.phase = "verified" /\ call.r.ok)
    => LET weighted ==
             IF call.biometric_type = "fingerprint"
             THEN FingerprintWeighted(FeaturesOf("fingerprint", call.sample).val,
                                      loads(decrypt(Service, call.stored).val).val)
             ELSE call.r.val.similarity
       IN  call.r.val.success
             <=> (~IsNaN(weighted) /\ weighted >= call.r.val.threshold)

\* C21: in every modality's scorer the correlation term of two vectors that
\* both have variance is (r + 1) / 2, a value in [0, 1].
C21_CorrelationRemapped ==
  (/\ call.phase = "scored"
   /\ ~IsConstant(call.new)
   /\ ~IsConstant(call.stored))
    => LET term == CorrelationTerm(call.biometric_type, call.new, call.stored)
       IN  /\ term = (Corrcoef(call.new, call.stored) + Scale) \div 2
           /\ term >= 0
           /\ term <= Scale

\* C22: in every modality's scorer the correlation term is 0 when one of the
\* two vectors has all elements equal.
C22_ZeroVarianceTermIsZero ==
  (/\ call.phase = "scored"
   /\ Len(call.new) > 0
   /\ IsConstant(call.new) \/ IsConstant(call.stored))
    => CorrelationTerm(call.biometric_type, call.new, call.stored) = 0

\* C25: verify_fingerprint on a capture of fewer pixels than the minimum ends
\* in an error without running the extractor.
C25_SmallCaptureRejectedInVerify ==
  (/\ call.phase = "verified"
   /\ call.biometric_type = "fingerprint"
   /\ call.sample # None
   /\ Captures[call.sample.v].decodes
   /\ Captures[call.sample.v].pixels < MinPixels)
    => /\ ~call.r.ok
       /\ ~call.r.extractor

\* C26: a request reaches a command endpoint only with a token that decodes,
\* carries biometric_verified = true and names an active user; a request with
\* the token login issued is answered 403 and one whose token does not decode
\* is answered 401.
C26_CommandsNeedVerifiedToken ==
  (call.phase = "auth" /\ call.resp.endpoint \in CommandEndpoints)
    => LET payload == JwtDecode(call.resp.token, SECRET_KEY, call.resp.at)
       IN  /\ call.resp.reached
                => /\ payload.ok
                   /\ payload.val.biometric_verified
                   /\ Accounts[payload.val.sub].is_active
           /\ ~payload.ok => call.resp.status = 401
           /\ (/\ payload.ok
               /\ ~payload.val.biometric_verified
               /\ Accounts[payload.val.sub].is_active) => call.resp.status = 403

\* the skeleton pixels among the 8 neighbours of p, pixels outside the image
\* counting as empty
SkeletonNeighbours(skeleton, p) ==
  {q \in Grid : /\ q # p
                /\ q[1] - p[1] \in {0 - 1, 0, 1}
                /\ q[2] - p[2] \in {0 - 1, 0, 1}
                /\ skeleton[q] = 1}

\* C27: the terminations are exactly the skeleton pixels with one skeleton
\* pixel among their 8 neighbours, the bifurcations exactly those with three;
\* the counts are the numbers of these pixels.
C27_MinutiaeByNeighbourCount ==
  call.phase = "encoded"
    => /\ call.minutiae.term_coords
            = {p \in Grid : /\ call.skeleton[p] = 1
                            /\ Cardinality(SkeletonNeighbours(call.skeleton, p)) = 1}
       /\ call.minutiae.bif_coords
            = {p \in Grid : /\ call.skeleton[p] = 1
                            /\ Cardinality(SkeletonNeighbours(call.skeleton, p)) = 3}
       /\ call.minutiae.terminations = Cardinality(call.minutiae.term_coords)
       /\ call.minutiae.bifurcations = Cardinality(call.minutiae.bif_coords)

\* C27 case: a skeleton with a termination on the border, a bifurcation and an
\* empty pixel that has skeleton neighbours
C27_Witness ==
  /\ call.phase = "encoded"
  /\ call.minutiae.bifurcations > 0
  /\ \E p \in call.minutiae.term_coords : p[1] = 1 \/ p[2] = 1
  /\ \E p \in Grid : /\ call.skeleton[p] = 0
                      /\ SkeletonNeighbours(call.skeleton, p) # {}

\* C28: the block statistics cover an 8 x 8 grid of 64 blocks, and every pixel
\* of the image lies in a measured block.
C28_AllBlocksMeasured ==
  call.phase = "encoded"
    => /\ Cardinality(call.blocks) = 64
       /\ \A y \in 0..(ImageSide - 1) :
            \E b \in call.blocks : b[1] <= y /\ y < b[1] + block_size
       /\ \A x \in 0..(ImageSide - 1) :
            \E b \in call.blocks : b[2] <= x /\ x < b[2] + block_size

Terminal == {"success", "failed"}
\* the status of the i-th log, "none" while it does not exist
StatusOf(i) == IF i <= Len(call.logs) THEN call.logs[i].status ELSE "none"

\* C30: a CommandLog is created with status 'running'; its status changes only
\* from 'running' to 'success' or 'failed', after which the log never changes;
\* and every log eventually has a terminal status.
C30_LogLifecycle ==
  /\ [][\A i \in 1..Len(call'.logs) :
          IF i > Len(call.logs)
          THEN call'.logs[i].status = "running"
          ELSE /\ call.logs[i].status \in Terminal => call'.logs[i] = call.logs[i]
               /\ call'.logs[i].status # call.logs[i].status
                    => /\ call.logs[i].status = "running"
                       /\ call'.logs[i].status \in Terminal]_vars
  /\ \A i \in 1..MaxLogs : (StatusOf(i) = "running") ~> (StatusOf(i) \in Terminal)

\* C30 case: one log has failed, another one succeeded, no task is left
C30_Witness ==
  /\ call.phase = "commands"
  /\ Len(call.logs) >= 2
  /\ call.logs[1].status = "failed"
  /\ call.logs[2].status = "success"
  /\ call.tasks = {}
====
